---- MODULE Spec2Model ----
(***************************************************************************)
(* A model of the connection pool of conn.go: the Conn object built by     *)
(* NewConnManager and its operations Acquire, Regain, Close (Retire) and   *)
(* Release (Shutdown), called concurrently by a fixed set of goroutines.   *)
(*                                                                         *)
(* Every goroutine has a program counter; one action of the model is one   *)
(* step of the code between two points where another goroutine can         *)
(* observe or change the shared state (channel operations, the mutex, the  *)
(* unsynchronised reads of conn.closed).  Statements executed with the     *)
(* mutex held that touch only mutex-protected fields are one step.         *)
(*                                                                         *)
(* conn.closed is read without the mutex in Acquire, Regain and Release.   *)
(* The model reads its current value; the stale value a racing read may    *)
(* return is the value of the interleaving in which the read steps before  *)
(* the write, which the model also has.                                    *)
(***************************************************************************)
EXTENDS Integers, Sequences, FiniteSets, TLC

\* ---- bounds -------------------------------------------------------------
NumProcs == 2      \* goroutines calling the pool
MaxCap   == 2      \* largest capacity (conn.max) explored
MaxExtra == 1      \* resources the builder may produce after construction

Procs     == 1..NumProcs
MaxRes    == MaxCap + MaxExtra
Resources == 1..MaxRes
Nil       == 0     \* the nil Poolable
NoProc    == 0     \* the mutex is unlocked

VARIABLES
    max,        \* conn.max
    active,     \* conn.active
    closed,     \* conn.closed
    mutex,      \* conn.mutex: NoProc, or the goroutine that holds it
    pool,       \* conn.pool: the buffered channel's contents, oldest first
    poolClosed, \* close(conn.pool) has run
    built,      \* resources the builder has produced so far (ids 1..built)
    st,         \* per resource: "unbuilt", "open", "closed", "closeFailed"
    done,       \* per resource: "no", or where it was when Done() fired
    pc,         \* per goroutine: position in the code
    op,         \* per goroutine: the operation it is in or was last in
    ret,        \* per goroutine: result of its last finished call
    cur,        \* per goroutine: the local variable closer
    held,       \* per goroutine: resources checked out to it
    crash       \* "none", or the panic that ended the process

vars == <<max, active, closed, mutex, pool, poolClosed, built, st, done,
          pc, op, ret, cur, held, crash>>

shared == <<max, active, closed, mutex, pool, poolClosed, built, st, done>>

\* ---- helpers ------------------------------------------------------------
PoolableSeq(n) == [i \in 1..n |-> i]

\* conn.pool has a buffer of max elements
PoolFull == Len(pool) >= max

\* a receive from conn.pool can proceed: an element is buffered, or the
\* channel is closed (then it yields nil)
CanRecv == pool # <<>> \/ poolClosed

RecvVal == IF pool # <<>> THEN Head(pool) ELSE Nil

RecvRest == IF pool # <<>> THEN Tail(pool) ELSE pool

\* Release has set conn.closed and returned
ShutdownReturned == closed /\ \A q \in Procs : pc[q] # "rel_unlock"

Running == crash = "none"

Idle(p) == Running /\ pc[p] = "idle"

\* a call begins: the goroutine leaves "idle"
Begin(p, o) == op' = [op EXCEPT ![p] = o]

\* a call returns v
Return(p, v) ==
    /\ pc'  = [pc  EXCEPT ![p] = "idle"]
    /\ ret' = [ret EXCEPT ![p] = v]
    /\ cur' = [cur EXCEPT ![p] = Nil]

Goto(p, l) == pc' = [pc EXCEPT ![p] = l]

Panic(p, what) ==
    /\ crash' = what
    /\ UNCHANGED <<shared, pc, op, ret, cur, held>>

\* ---- construction -------------------------------------------------------
\* NewConnManager(max, builder) with a builder that succeeds max times
Init ==
    /\ max \in 1..MaxCap
    /\ active = max
    /\ closed = FALSE
    /\ mutex = NoProc
    /\ pool = PoolableSeq(max)
    /\ poolClosed = FALSE
    /\ built = max
    /\ st = [r \in Resources |-> IF r <= max THEN "open" ELSE "unbuilt"]
    /\ done = [r \in Resources |-> "no"]
    /\ pc = [p \in Procs |-> "idle"]
    /\ op = [p \in Procs |-> "none"]
    /\ ret = [p \in Procs |-> "none"]
    /\ cur = [p \in Procs |-> Nil]
    /\ held = [p \in Procs |-> {}]
    /\ crash = "none"

\* ---- the resource ---------------------------------------------------------
\* Poolable.Done(): the resource raises its one-shot signal, at any time
MarkDone(r) ==
    /\ Running
    /\ st[r] = "open"
    /\ done[r] = "no"
    /\ done' = [done EXCEPT ![r] =
                  IF \E p \in Procs : r \in held[p] THEN "held" ELSE "idle"]
    /\ UNCHANGED <<max, active, closed, mutex, pool, poolClosed, built, st,
                   pc, op, ret, cur, held, crash>>

\* the validity check left out: no resource is ever seen as done
IsDone_Off(r) == FALSE

\* `case <-closer.Done()` is ready
IsDone(r) == done[r] # "no"

\* ---- Acquire ------------------------------------------------------------
\* the capacity test off by one: `conn.active > conn.max`
AtCapacity_Off == active > max

\* the capacity test of acquire()
AtCapacity == active >= max

\* Acquire is called; `if conn.closed { return nil, PoolClosed }`
AcquireEntry(p) ==
    /\ Idle(p)
    /\ Begin(p, "Acquire")
    /\ IF closed
         THEN Return(p, "PoolClosed")
         ELSE /\ Goto(p, "acq_sel")
              /\ ret' = [ret EXCEPT ![p] = "none"]
              /\ cur' = cur
    /\ UNCHANGED <<shared, held, crash>>

\* acquire(): `select { case closer := <-conn.pool: ...; default: ... }`
AcqSelect(p) ==
    /\ Running
    /\ pc[p] = "acq_sel"
    /\ IF CanRecv
         THEN /\ cur' = [cur EXCEPT ![p] = RecvVal]
              /\ pool' = RecvRest
              /\ Goto(p, "acq_check")
         ELSE /\ Goto(p, "acq_lock")
              /\ UNCHANGED <<cur, pool>>
    /\ UNCHANGED <<max, active, closed, mutex, poolClosed, built, st, done,
                   op, ret, held, crash>>

\* the capacity test made without taking the mutex
AcqLock_NoLock(p) ==
    /\ Running
    /\ pc[p] = "acq_lock"
    /\ IF AtCapacity
         THEN Goto(p, "acq_wait")
         ELSE Goto(p, "acq_build")
    /\ UNCHANGED <<max, active, closed, mutex, pool, poolClosed, built, st,
                   done, op, ret, cur, held, crash>>

\* conn.mutex.Lock(); `if conn.active >= conn.max { conn.mutex.Unlock(); ...`
AcqLock(p) ==
    /\ Running
    /\ pc[p] = "acq_lock"
    /\ mutex = NoProc
    /\ IF AtCapacity
         THEN /\ Goto(p, "acq_wait")
              /\ mutex' = mutex
         ELSE /\ Goto(p, "acq_build")
              /\ mutex' = p
    /\ UNCHANGED <<max, active, closed, pool, poolClosed, built, st, done,
                   op, ret, cur, held, crash>>

\* the error return of acquire() without conn.mutex.Unlock()
AcqBuildFail_NoUnlock(p) ==
    /\ Running
    /\ pc[p] = "acq_build"
    /\ Return(p, "BuildErr")
    /\ UNCHANGED <<max, active, closed, mutex, pool, poolClosed, built, st,
                   done, op, held, crash>>

\* conn.builder() fails: unlock, return the error
AcqBuildFail(p) ==
    /\ Running
    /\ pc[p] = "acq_build"
    /\ mutex' = NoProc
    /\ Return(p, "BuildErr")
    /\ UNCHANGED <<max, active, closed, pool, poolClosed, built, st, done,
                   op, held, crash>>

\* conn.builder() succeeds: conn.active++, unlock
AcqBuildOk(p) ==
    /\ Running
    /\ pc[p] = "acq_build"
    /\ built < MaxRes
    /\ built' = built + 1
    /\ st' = [st EXCEPT ![built + 1] = "open"]
    /\ active' = active + 1
    /\ mutex' = NoProc
    /\ cur' = [cur EXCEPT ![p] = built + 1]
    /\ Goto(p, "acq_put")
    /\ UNCHANGED <<max, closed, pool, poolClosed, done, op, ret, held, crash>>

\* `conn.pool <- closer`
AcqPut(p) ==
    /\ Running
    /\ pc[p] = "acq_put"
    /\ IF poolClosed
         THEN Panic(p, "acquire: send on closed channel")
         ELSE /\ ~PoolFull
              /\ pool' = Append(pool, cur[p])
              /\ Goto(p, "acq_take")
              /\ UNCHANGED <<max, active, closed, mutex, poolClosed, built,
                             st, done, op, ret, cur, held, crash>>

\* `return <-conn.pool, nil`
AcqTake(p) ==
    /\ Running
    /\ pc[p] = "acq_take"
    /\ CanRecv
    /\ cur' = [cur EXCEPT ![p] = RecvVal]
    /\ pool' = RecvRest
    /\ Goto(p, "acq_check")
    /\ UNCHANGED <<max, active, closed, mutex, poolClosed, built, st, done,
                   op, ret, held, crash>>

\* the blocking select without its case on conn.pool
AcqWaitRecv_Off(p) ==
    /\ FALSE
    /\ UNCHANGED vars

\* the blocking select, `case closer := <-conn.pool: return closer, nil`
AcqWaitRecv(p) ==
    /\ Running
    /\ pc[p] = "acq_wait"
    /\ CanRecv
    /\ cur' = [cur EXCEPT ![p] = RecvVal]
    /\ pool' = RecvRest
    /\ Goto(p, "acq_check")
    /\ UNCHANGED <<max, active, closed, mutex, poolClosed, built, st, done,
                   op, ret, held, crash>>

\* Acquire's select on closer.Done(): retire and retry, or return closer
AcqCheck(p) ==
    /\ Running
    /\ pc[p] = "acq_check"
    /\ IF cur[p] = Nil
         THEN Panic(p, "acquire: nil dereference")
         ELSE /\ IF IsDone(cur[p])
                   THEN /\ Goto(p, "cl_lock")
                        /\ UNCHANGED <<ret, cur, held>>
                   ELSE /\ held' = [held EXCEPT ![p] = @ \cup {cur[p]}]
                        /\ Return(p, "ok")
              /\ UNCHANGED <<shared, op, crash>>

\* ---- Close (Retire) -----------------------------------------------------
\* Close(closer) is called with a resource the caller holds
CloseEntry(p, r) ==
    /\ Idle(p)
    /\ r \in held[p]
    /\ Begin(p, "Close")
    /\ held' = [held EXCEPT ![p] = @ \ {r}]
    /\ cur' = [cur EXCEPT ![p] = r]
    /\ ret' = [ret EXCEPT ![p] = "none"]
    /\ Goto(p, "cl_lock")
    /\ UNCHANGED <<shared, crash>>

\* conn.mutex.Lock()
ClLock(p) ==
    /\ Running
    /\ pc[p] = "cl_lock"
    /\ mutex = NoProc
    /\ mutex' = p
    /\ Goto(p, "cl_close")
    /\ UNCHANGED <<max, active, closed, pool, poolClosed, built, st, done,
                   op, ret, cur, held, crash>>

\* closer.Close() fails: `return err`, the mutex stays locked; inside
\* Acquire the error is dropped and the loop continues
ClCloseFail(p) ==
    /\ Running
    /\ pc[p] = "cl_close"
    /\ st' = [st EXCEPT ![cur[p]] = "closeFailed"]
    /\ IF op[p] = "Acquire"
         THEN /\ Goto(p, "acq_sel")
              /\ UNCHANGED <<ret, cur>>
         ELSE Return(p, "CloseErr")
    /\ UNCHANGED <<max, active, closed, mutex, pool, poolClosed, built, done,
                   op, held, crash>>

\* closer.Close() succeeds: conn.active--, unlock
ClCloseOk(p) ==
    /\ Running
    /\ pc[p] = "cl_close"
    /\ st' = [st EXCEPT ![cur[p]] = "closed"]
    /\ active' = active - 1
    /\ mutex' = NoProc
    /\ Goto(p, "cl_send")
    /\ UNCHANGED <<max, closed, pool, poolClosed, built, done, op, ret, cur,
                   held, crash>>

\* `conn.event <- struct{}{}` meets `case <-conn.event: goto acquire`:
\* conn.event is unbuffered, the send needs a receiver in the blocking select
EventHandoff(s, w) ==
    /\ Running
    /\ s # w
    /\ pc[s] = "cl_send"
    /\ pc[w] = "acq_wait"
    /\ IF op[s] = "Acquire"
         THEN /\ pc' = [pc EXCEPT ![s] = "acq_sel", ![w] = "acq_sel"]
              /\ UNCHANGED <<ret, cur>>
         ELSE /\ pc' = [pc EXCEPT ![s] = "idle", ![w] = "acq_sel"]
              /\ ret' = [ret EXCEPT ![s] = "ok"]
              /\ cur' = [cur EXCEPT ![s] = Nil]
    /\ UNCHANGED <<shared, op, held, crash>>

\* ---- Regain -------------------------------------------------------------
\* the entry check of Regain left out
RegainSeesClosed_Off == FALSE

\* Regain's read of conn.closed
RegainSeesClosed == closed

\* Regain(closer) is called; `if conn.closed { return PoolClosed }`
RegainEntry(p, r) ==
    /\ Idle(p)
    /\ r \in held[p]
    /\ Begin(p, "Regain")
    /\ IF RegainSeesClosed
         THEN /\ Return(p, "PoolClosed")
              /\ held' = held
         ELSE /\ held' = [held EXCEPT ![p] = @ \ {r}]
              /\ cur' = [cur EXCEPT ![p] = r]
              /\ ret' = [ret EXCEPT ![p] = "none"]
              /\ Goto(p, "rg_send")
    /\ UNCHANGED <<shared, crash>>

\* `conn.pool <- closer`
RgSend(p) ==
    /\ Running
    /\ pc[p] = "rg_send"
    /\ IF poolClosed
         THEN Panic(p, "regain: send on closed channel")
         ELSE /\ ~PoolFull
              /\ pool' = Append(pool, cur[p])
              /\ Return(p, "ok")
              /\ UNCHANGED <<max, active, closed, mutex, poolClosed, built,
                             st, done, op, held, crash>>

\* ---- Release (Shutdown) -------------------------------------------------
\* the entry check of Release left out
ReleaseSeesClosed_Off == FALSE

\* Release's read of conn.closed
ReleaseSeesClosed == closed

\* Release is called; `if conn.closed { return PoolClosed }`
ReleaseEntry(p) ==
    /\ Idle(p)
    /\ Begin(p, "Release")
    /\ IF ReleaseSeesClosed
         THEN Return(p, "PoolClosed")
         ELSE /\ Goto(p, "rel_lock")
              /\ ret' = [ret EXCEPT ![p] = "none"]
              /\ cur' = cur
    /\ UNCHANGED <<shared, held, crash>>

\* conn.mutex.Lock()
RelLock(p) ==
    /\ Running
    /\ pc[p] = "rel_lock"
    /\ mutex = NoProc
    /\ mutex' = p
    /\ Goto(p, "rel_close")
    /\ UNCHANGED <<max, active, closed, pool, poolClosed, built, st, done,
                   op, ret, cur, held, crash>>

\* close(conn.pool)
RelClose(p) ==
    /\ Running
    /\ pc[p] = "rel_close"
    /\ IF poolClosed
         THEN Panic(p, "release: close of closed channel")
         ELSE /\ poolClosed' = TRUE
              /\ Goto(p, "rel_drain")
              /\ UNCHANGED <<max, active, closed, mutex, pool, built, st,
                             done, op, ret, cur, held, crash>>

\* the drain without `conn.active--`
RelDrain_NoDec(p) ==
    /\ Running
    /\ pc[p] = "rel_drain"
    /\ pool # <<>>
    /\ pool' = Tail(pool)
    /\ \E res \in {"closed", "closeFailed"} :
          st' = [st EXCEPT ![Head(pool)] = res]
    /\ UNCHANGED <<max, active, closed, mutex, poolClosed, built, done, pc,
                   op, ret, cur, held, crash>>

\* one iteration of `for closer := range conn.pool`: conn.active--,
\* closer.Close() with its error dropped
RelDrain(p) ==
    /\ Running
    /\ pc[p] = "rel_drain"
    /\ pool # <<>>
    /\ pool' = Tail(pool)
    /\ active' = active - 1
    /\ \E res \in {"closed", "closeFailed"} :
          st' = [st EXCEPT ![Head(pool)] = res]
    /\ UNCHANGED <<max, closed, mutex, poolClosed, built, done, pc, op, ret,
                   cur, held, crash>>

\* the range loop ends on the drained closed channel; conn.closed = true
RelDrainEnd(p) ==
    /\ Running
    /\ pc[p] = "rel_drain"
    /\ pool = <<>>
    /\ closed' = TRUE
    /\ Goto(p, "rel_unlock")
    /\ UNCHANGED <<max, active, mutex, pool, poolClosed, built, st, done,
                   op, ret, cur, held, crash>>

\* conn.mutex.Unlock(); return nil
RelUnlock(p) ==
    /\ Running
    /\ pc[p] = "rel_unlock"
    /\ mutex' = NoProc
    /\ Return(p, "ok")
    /\ UNCHANGED <<max, active, closed, pool, poolClosed, built, st, done,
                   op, held, crash>>

\* ---- the system ---------------------------------------------------------
\* a step of a call that is under way (not the start of a new call)
InCall(p) ==
    \/ AcqSelect(p)
    \/ AcqLock(p)
    \/ AcqBuildFail(p)
    \/ AcqBuildOk(p)
    \/ AcqPut(p)
    \/ AcqTake(p)
    \/ AcqWaitRecv(p)
    \/ AcqCheck(p)
    \/ ClLock(p)
    \/ ClCloseFail(p)
    \/ ClCloseOk(p)
    \/ RgSend(p)
    \/ RelLock(p)
    \/ RelClose(p)
    \/ RelDrain(p)
    \/ RelDrainEnd(p)
    \/ RelUnlock(p)
    \/ \E w \in Procs : EventHandoff(p, w)
    \/ \E s \in Procs : EventHandoff(s, p)

Next ==
    \/ \E p \in Procs : AcquireEntry(p)
    \/ \E p \in Procs : AcqSelect(p)
    \/ \E p \in Procs : AcqLock(p)
    \/ \E p \in Procs : AcqBuildFail(p)
    \/ \E p \in Procs : AcqBuildOk(p)
    \/ \E p \in Procs : AcqPut(p)
    \/ \E p \in Procs : AcqTake(p)
    \/ \E p \in Procs : AcqWaitRecv(p)
    \/ \E p \in Procs : AcqCheck(p)
    \/ \E p \in Procs, r \in Resources : CloseEntry(p, r)
    \/ \E p \in Procs : ClLock(p)
    \/ \E p \in Procs : ClCloseFail(p)
    \/ \E p \in Procs : ClCloseOk(p)
    \/ \E s, w \in Procs : EventHandoff(s, w)
    \/ \E p \in Procs, r \in Resources : RegainEntry(p, r)
    \/ \E p \in Procs : RgSend(p)
    \/ \E p \in Procs : ReleaseEntry(p)
    \/ \E p \in Procs : RelLock(p)
    \/ \E p \in Procs : RelClose(p)
    \/ \E p \in Procs : RelDrain(p)
    \/ \E p \in Procs : RelDrainEnd(p)
    \/ \E p \in Procs : RelUnlock(p)
    \/ \E r \in Resources : MarkDone(r)

Spec == Init /\ [][Next]_vars

\* the pool while it is not shut down: callers use Acquire, Regain and Close
NextOpen ==
    \/ \E p \in Procs : AcquireEntry(p)
    \/ \E p \in Procs : AcqSelect(p)
    \/ \E p \in Procs : AcqLock(p)
    \/ \E p \in Procs : AcqBuildFail(p)
    \/ \E p \in Procs : AcqBuildOk(p)
    \/ \E p \in Procs : AcqPut(p)
    \/ \E p \in Procs : AcqTake(p)
    \/ \E p \in Procs : AcqWaitRecv(p)
    \/ \E p \in Procs : AcqCheck(p)
    \/ \E p \in Procs, r \in Resources : CloseEntry(p, r)
    \/ \E p \in Procs : ClLock(p)
    \/ \E p \in Procs : ClCloseFail(p)
    \/ \E p \in Procs : ClCloseOk(p)
    \/ \E s, w \in Procs : EventHandoff(s, w)
    \/ \E p \in Procs, r \in Resources : RegainEntry(p, r)
    \/ \E p \in Procs : RgSend(p)
    \/ \E r \in Resources : MarkDone(r)

\* the Go scheduler runs every goroutine that can take a step: weak fairness
\* of the steps of calls under way (callers need not start new calls)
OpenFairSpec ==
    Init /\ [][NextOpen]_vars /\ \A p \in Procs : WF_vars(InCall(p))

\* ---- NewConnManager, step by step ------------------------------------
\* the goroutine that calls NewConnManager
Creator == CHOOSE p \in Procs : TRUE

\* before the call: the requested capacity may be invalid, nothing is built
\* and no goroutine has a *Conn yet ("nopool")
NewInit ==
    /\ max \in 0..MaxCap
    /\ active = 0
    /\ closed = FALSE
    /\ mutex = NoProc
    /\ pool = <<>>
    /\ poolClosed = FALSE
    /\ built = 0
    /\ st = [r \in Resources |-> "unbuilt"]
    /\ done = [r \in Resources |-> "no"]
    /\ pc = [p \in Procs |-> IF p = Creator THEN "new_entry" ELSE "nopool"]
    /\ op = [p \in Procs |-> IF p = Creator THEN "NewConnManager" ELSE "none"]
    /\ ret = [p \in Procs |-> "none"]
    /\ cur = [p \in Procs |-> Nil]
    /\ held = [p \in Procs |-> {}]
    /\ crash = "none"

\* `if max <= 0 { return nil, InvalidConfig }`, else conn := &Conn{...}
NewEntry ==
    /\ pc[Creator] = "new_entry"
    /\ IF max <= 0
         THEN /\ pc' = [p \in Procs |-> "nopool"]
              /\ ret' = [ret EXCEPT ![Creator] = "InvalidConfig"]
         ELSE /\ Goto(Creator, "new_loop")
              /\ ret' = ret
    /\ UNCHANGED <<shared, op, cur, held, crash>>

\* the loop one iteration short: `i < max-1`
NewMore_Off == active < max - 1

\* the loop test `i < max`; i and conn.active are incremented together
NewMore == active < max

\* one iteration: builder() succeeds, conn.active++, conn.pool <- closer
NewBuildOk ==
    /\ pc[Creator] = "new_loop"
    /\ NewMore
    /\ built < MaxRes
    /\ built' = built + 1
    /\ st' = [st EXCEPT ![built + 1] = "open"]
    /\ active' = active + 1
    /\ pool' = Append(pool, built + 1)
    /\ UNCHANGED <<max, closed, mutex, poolClosed, done, pc, op, ret, cur,
                   held, crash>>

\* one iteration: builder() fails, `return nil, err`
NewBuildFail ==
    /\ pc[Creator] = "new_loop"
    /\ NewMore
    /\ pc' = [p \in Procs |-> "nopool"]
    /\ ret' = [ret EXCEPT ![Creator] = "BuildErr"]
    /\ UNCHANGED <<shared, op, cur, held, crash>>

\* the loop is over: `return conn, nil`; the goroutines share the pool
NewReturn ==
    /\ pc[Creator] = "new_loop"
    /\ ~NewMore
    /\ pc' = [p \in Procs |-> "idle"]
    /\ ret' = [ret EXCEPT ![Creator] = "ok"]
    /\ UNCHANGED <<shared, op, cur, held, crash>>

NewNext ==
    \/ NewEntry
    \/ NewBuildOk
    \/ NewBuildFail
    \/ NewReturn
    \/ Next

\* NewConnManager followed by the use of the pool it returns
NewSpec == NewInit /\ [][NewNext]_vars

TypeOK ==
    /\ max \in 1..MaxCap
    /\ active \in Int
    /\ closed \in BOOLEAN
    /\ mutex \in Procs \cup {NoProc}
    /\ Len(pool) <= max
    /\ built \in 0..MaxRes

\* ---- vocabulary of the properties ---------------------------------------
\* no goroutine is inside a call
Quiescent == Running /\ \A p \in Procs : pc[p] = "idle"

RECURSIVE HeldCount(_)
HeldCount(S) ==
    IF S = {} THEN 0
    ELSE LET p == CHOOSE q \in S : TRUE
         IN  Cardinality(held[p]) + HeldCount(S \ {p})

\* resources checked out by callers
CheckedOut == HeldCount(Procs)

\* goroutine p is inside Acquire
InAcquire(p) == op[p] = "Acquire" /\ pc[p] # "idle"

\* some goroutine that is inside a call can take a step
SomeCallCanStep == ENABLED (\E q \in Procs : InCall(q))

\* the pool has a resource to hand out or room to build one
SlotFree == pool # <<>> \/ active < max

\* ---- C1 -----------------------------------------------------------------
\* C1: in every reachable state, under any interleaving of Acquire, Regain
\* and Close, conn.active never exceeds conn.max.
C1_ActiveWithinMax == active <= max

\* an Acquire built a resource after construction, the pool is at capacity
\* again and another Acquire waits instead of building
C1_Witness ==
    /\ built > max
    /\ active = max
    /\ \E p \in Procs : pc[p] = "acq_wait"

\* ---- C2 -----------------------------------------------------------------
\* C2: no goroutine stays blocked inside Acquire while the pool is open and
\* a resource sits in the pool or active < max: in such a state some
\* goroutine that is inside a call can take a step.
C2_BlockedAcquireCanProgress ==
    \A p \in Procs :
        (Running /\ InAcquire(p) /\ ~poolClosed /\ SlotFree)
            => SomeCallCanStep

\* ---- C3 -----------------------------------------------------------------
\* C3: a Close whose resource closed successfully is never blocked on its
\* notification: the send on conn.event can always proceed, also when no
\* Acquire is waiting.
C3_RetireSendNeverBlocks ==
    \A p \in Procs :
        (Running /\ pc[p] = "cl_send")
            => ENABLED (\E w \in Procs : EventHandoff(p, w))

\* ---- C4 -----------------------------------------------------------------
\* C4: the step of Close that runs closer.Close() decrements conn.active by
\* exactly one and leaves the mutex unlocked, whether closer.Close()
\* succeeded or failed.
C4_CloseAlwaysAccounts ==
    [][\A p \in Procs :
          (pc[p] = "cl_close" /\ pc'[p] # "cl_close")
              => (active' = active - 1 /\ mutex' = NoProc)]_vars

\* ---- C5 -----------------------------------------------------------------
\* C5 (scenario B): with capacity 1 and a single caller, while Acquire
\* handles the resource whose Done fired when it was checked out (and that
\* was then regained), active is 1 and the Acquire is not blocked in the
\* retirement.
C5_ScenarioB ==
    \A p \in Procs :
        ( /\ Running
          /\ max = 1
          /\ InAcquire(p)
          /\ cur[p] # Nil
          /\ done[cur[p]] = "held"
          /\ \A q \in Procs \ {p} : op[q] = "none" )
        => ( /\ active = 1
             /\ pc[p] = "cl_send"
                   => ENABLED (\E w \in Procs : EventHandoff(p, w)) )

\* ---- C6 -----------------------------------------------------------------
\* an Acquire inside the call meets the closed pool channel: it has received
\* nil from it, or is about to send the resource it built to it
FoundPoolClosed(p) ==
    /\ InAcquire(p)
    /\ poolClosed
    /\ \/ pc[p] = "acq_check" /\ cur[p] = Nil
       \/ pc[p] = "acq_put"

\* C6: an Acquire that is inside the call when Release runs fails with
\* PoolClosed: its next step returns that error and the process does not
\* panic in Acquire.
C6_AcquireDuringShutdownFails ==
    [][\A p \in Procs :
          (FoundPoolClosed(p) /\ (pc'[p] # pc[p] \/ crash' # crash))
              => /\ crash' \notin {"acquire: nil dereference",
                                   "acquire: send on closed channel"}
                 /\ (pc'[p] # pc[p]
                        => pc'[p] = "idle" /\ ret'[p] = "PoolClosed")]_vars

\* ---- C7 -----------------------------------------------------------------
\* C7: every Acquire that returns a nil error returns a non-nil resource
\* whose Done had not fired when it was checked, and a resource found with
\* Done fired is passed to Close and not handed to the caller.
C7_AcquireReturnsValid ==
    [][\A p \in Procs :
          /\ (InAcquire(p) /\ pc'[p] = "idle" /\ ret'[p] = "ok")
                => /\ cur[p] # Nil
                   /\ done[cur[p]] = "no"
                   /\ held'[p] = held[p] \cup {cur[p]}
          /\ (pc[p] = "acq_check" /\ pc'[p] # "acq_check" /\ cur[p] # Nil
                 /\ done[cur[p]] # "no")
                => /\ pc'[p] = "cl_lock"
                   /\ cur'[p] = cur[p]
                   /\ held'[p] = held[p]]_vars

\* one Acquire is retiring a resource it found with Done fired while another
\* Acquire has returned a resource to its caller
C7_Witness ==
    \E p, q \in Procs :
        /\ p # q
        /\ InAcquire(p) /\ pc[p] = "cl_lock" /\ done[cur[p]] # "no"
        /\ pc[q] = "idle" /\ op[q] = "Acquire" /\ ret[q] = "ok"
        /\ held[q] # {}

\* ---- C8 -----------------------------------------------------------------
\* C8: between operations, the resources in the pool buffer plus the
\* resources checked out by callers are conn.active.
C8_PoolPlusCheckedOutIsActive ==
    Quiescent => active = Len(pool) + CheckedOut

\* ---- C9 -----------------------------------------------------------------
\* C9: once Release has returned, conn.closed stays true, no Acquire gets
\* past its entry check and the builder is not called.
C9_ClosedIsFinal ==
    [][ShutdownReturned =>
          /\ closed'
          /\ \A p \in Procs :
                /\ ~(pc[p] = "idle" /\ pc'[p] = "acq_sel")
                /\ ~(pc[p] = "acq_build" /\ pc'[p] # "acq_build")]_vars

\* ---- C10 ----------------------------------------------------------------
\* C10: once Release has returned, a Close call fails with PoolClosed at
\* entry: it never goes on to lock the pool and close the resource.
C10_CloseAfterShutdownFails ==
    [][ShutdownReturned =>
          \A p \in Procs :
              /\ ~(pc[p] = "idle" /\ pc'[p] = "cl_lock")
              /\ (pc[p] = "idle" /\ op'[p] = "Close" /\ held'[p] # held[p])
                    => ret'[p] = "PoolClosed"]_vars

\* ---- C11 ----------------------------------------------------------------
\* goroutine p takes the entry step of a call of o that returns at once
ReturnsAtEntry(p, o) ==
    /\ pc[p] = "idle"
    /\ pc'[p] = "idle"
    /\ op'[p] = o
    /\ <<op[p], ret[p]>> # <<op'[p], ret'[p]>>

\* C11: once Release has returned, a Regain call does not get past its
\* entry check: it returns PoolClosed, the caller keeps the resource and
\* the pool buffer and conn.active are unchanged.
C11_RegainAfterShutdownFails ==
    [][ShutdownReturned =>
          \A p \in Procs :
              /\ ~(pc[p] = "idle" /\ pc'[p] = "rg_send")
              /\ ReturnsAtEntry(p, "Regain")
                    => /\ ret'[p] = "PoolClosed"
                       /\ held' = held
                       /\ pool' = pool
                       /\ active' = active]_vars

\* after Release returned, a caller that still holds a resource has had its
\* Regain refused
C11_Witness ==
    /\ ShutdownReturned
    /\ \E p \in Procs :
          /\ pc[p] = "idle" /\ op[p] = "Regain" /\ ret[p] = "PoolClosed"
          /\ held[p] # {}

\* ---- C13 ----------------------------------------------------------------
\* goroutine p runs one iteration of Release's drain loop (a receive by
\* another goroutine moves that goroutine on)
DrainStep(p) == pc[p] = "rel_drain" /\ pool' # pool /\ pc' = pc

\* C13: each iteration of Release's drain closes the resource at the head of
\* the pool buffer, which was open, and decrements conn.active; no resource
\* a caller holds is ever closed; and when Release returns with no other
\* call under way the buffer is empty and conn.active is the number of
\* checked-out resources.
C13_ReleaseDrainsPool ==
    /\ [](\A p \in Procs : \A r \in held[p] : st[r] = "open")
    /\ [][\A p \in Procs :
             /\ DrainStep(p)
                  => /\ st[Head(pool)] = "open"
                     /\ st'[Head(pool)] \in {"closed", "closeFailed"}
                     /\ \A r \in Resources \ {Head(pool)} : st'[r] = st[r]
                     /\ pool' = Tail(pool)
                     /\ active' = active - 1
             /\ (pc[p] = "rel_unlock" /\ pc'[p] = "idle"
                    /\ \A q \in Procs \ {p} : pc[q] = "idle")
                  => /\ ret'[p] = "ok"
                     /\ pool' = <<>>
                     /\ active' = CheckedOut']_vars

\* Release has returned after draining a resource from the buffer while a
\* caller holds another one, which is still open
C13_Witness ==
    /\ ShutdownReturned
    /\ Quiescent
    /\ \E p \in Procs :
          /\ op[p] = "Release" /\ ret[p] = "ok"
          /\ \A q \in Procs : op[q] \in {"none", "Acquire", "Release"}
    /\ \E r \in Resources : st[r] = "closed"
    /\ active = 1
    /\ \E q \in Procs : \E r \in held[q] : st[r] = "open"

\* ---- C14 ----------------------------------------------------------------
\* C14 (scenario D): once Release has returned, another Release call does
\* not get past its entry check: it returns PoolClosed and conn.closed,
\* conn.active, the pool buffer and every resource stay as they were.
C14_SecondReleaseIsNoOp ==
    [][ShutdownReturned =>
          \A p \in Procs :
              /\ ~(pc[p] = "idle" /\ pc'[p] = "rel_lock")
              /\ ReturnsAtEntry(p, "Release")
                    => /\ ret'[p] = "PoolClosed"
                       /\ UNCHANGED <<closed, active, pool, poolClosed, st,
                                      mutex>>]_vars

\* one goroutine's Release succeeded and the other's was refused
C14_Witness ==
    /\ ShutdownReturned
    /\ \E p, q \in Procs :
          /\ pc[p] = "idle" /\ op[p] = "Release" /\ ret[p] = "ok"
          /\ pc[q] = "idle" /\ op[q] = "Release" /\ ret[q] = "PoolClosed"

\* ---- C12 ----------------------------------------------------------------
\* scenario A with capacity 2: both pre-warmed resources were handed out, no
\* resource was built or retired since, goroutine q has just regained one
\* of them, still valid, and goroutine w is inside Acquire
ScenarioA_Regained(w, q) ==
    /\ Running
    /\ max = 2 /\ active = 2 /\ built = 2
    /\ w # q
    /\ InAcquire(w)
    /\ Len(pool) = 1
    /\ done[Head(pool)] = "no"
    /\ pc[q] = "idle" /\ op[q] = "Regain" /\ ret[q] = "ok"
    /\ Cardinality(held[q]) = 1

\* Acquire of w has returned the resource q regained (the one of the two
\* that q does not hold) and the builder was not called
ScenarioA_Returned(w, q) ==
    /\ max = 2 /\ active = 2 /\ built = 2
    /\ w # q
    /\ pc[w] = "idle" /\ op[w] = "Acquire" /\ ret[w] = "ok"
    /\ Cardinality(held[w]) = 1
    /\ held[w] \cap held[q] = {}
    /\ pc[q] = "idle" /\ op[q] = "Regain" /\ ret[q] = "ok"
    /\ Cardinality(held[q]) = 1

\* the scenario was left: a second call is under way, or the Done of the
\* regained resource fired before Acquire checked it
ScenarioA_Left ==
    \/ \E p, q \in Procs : p # q /\ pc[p] # "idle" /\ pc[q] # "idle"
    \/ pool # <<>> /\ done[Head(pool)] # "no"
    \/ \E w \in Procs : cur[w] # Nil /\ done[cur[w]] # "no"

\* C12 (scenario A): the Acquire that found both resources handed out
\* eventually returns the resource that was regained, without a call of
\* the builder, unless another call begins or the resource's Done fires.
C12_ScenarioA ==
    (\E w, q \in Procs : ScenarioA_Regained(w, q))
        ~> ((\E w, q \in Procs : ScenarioA_Returned(w, q)) \/ ScenarioA_Left)

\* the blocked Acquire has returned the regained resource
C12_Witness ==
    \E w, q \in Procs : ScenarioA_Returned(w, q) /\ pool = <<>>

\* ---- C15 ----------------------------------------------------------------
\* NewConnManager has returned the builder's error and no pool
NewFailed == pc[Creator] = "nopool" /\ ret[Creator] = "BuildErr"

\* C15: when the builder fails partway through NewConnManager, every
\* resource built by the earlier builder calls has been closed when the
\* call returns the error.
C15_NoLeakOnFailedConstruction ==
    NewFailed => \A r \in Resources : st[r] # "open"

\* ---- C16 ----------------------------------------------------------------
\* NewConnManager has returned the pool and no call on it has begun
JustConstructed ==
    /\ op[Creator] = "NewConnManager"
    /\ ret[Creator] = "ok"
    /\ \A p \in Procs : pc[p] = "idle"
    /\ \A p \in Procs \ {Creator} : op[p] = "none"

\* C16: right after a successful NewConnManager, conn.active is max, the
\* pool buffer holds max distinct open resources, conn.closed is false and
\* the builder was called max times.
C16_ConstructedFull ==
    JustConstructed =>
        /\ max > 0
        /\ active = max
        /\ Len(pool) = max
        /\ \A i, j \in 1..Len(pool) : i # j => pool[i] # pool[j]
        /\ \A i \in 1..Len(pool) : st[pool[i]] = "open"
        /\ closed = FALSE
        /\ poolClosed = FALSE
        /\ built = max

\* a pool of capacity above one has just been constructed
C16_Witness == JustConstructed /\ max > 1

\* ---- C17 ----------------------------------------------------------------
\* C17: a goroutine calls the builder only with a free slot that no other
\* goroutine can claim: while it is between the capacity test and
\* conn.active++, active < max, no other goroutine is there too, and no
\* other goroutine can pass the capacity test.
C17_OneBuilderPerSlot ==
    \A p \in Procs :
        pc[p] = "acq_build"
            => /\ active < max
               /\ \A q \in Procs \ {p} :
                     /\ pc[q] # "acq_build"
                     /\ ~ENABLED AcqLock(q)

\* the pool buffer is empty, one slot is free, one Acquire is about to call
\* the builder and a second Acquire is at the capacity test
C17_Witness ==
    \E p, q \in Procs :
        /\ p # q
        /\ pc[p] = "acq_build"
        /\ pc[q] = "acq_lock"
        /\ pool = <<>>
        /\ active = max - 1

\* ---- C18 ----------------------------------------------------------------
\* C18: the step of Acquire in which the builder fails returns the
\* builder's error, leaves conn.active, the pool buffer and the caller's
\* resources as they were and unlocks the mutex.
C18_BuilderErrorPropagates ==
    [][\A p \in Procs :
          (pc[p] = "acq_build" /\ pc'[p] = "idle")
              => /\ ret'[p] = "BuildErr"
                 /\ active' = active
                 /\ pool' = pool
                 /\ built' = built
                 /\ held' = held
                 /\ mutex' = NoProc]_vars

\* an Acquire that found the pool buffer empty and a slot free has returned
\* the builder's error, and the mutex is free
C18_Witness ==
    \E p \in Procs :
        /\ pc[p] = "idle" /\ op[p] = "Acquire" /\ ret[p] = "BuildErr"
        /\ pool = <<>>
        /\ active < max
        /\ mutex = NoProc

\* ---- C19 ----------------------------------------------------------------
\* C19: a Regain that overlaps Release never sends on the closed pool
\* channel, and no resource stays in the buffer of a pool whose Release has
\* returned.
C19_RegainDuringShutdownSafe ==
    /\ crash # "regain: send on closed channel"
    /\ ShutdownReturned => pool = <<>>

\* ---- C20 ----------------------------------------------------------------
\* C20: concurrent Release calls close the pool channel at most once, and
\* at most one of them returns nil.
C20_OneReleaseWins ==
    /\ crash # "release: close of closed channel"
    /\ Cardinality({p \in Procs :
                       pc[p] = "idle" /\ op[p] = "Release" /\ ret[p] = "ok"})
          <= 1

====
